---- MODULE Spec2Model ----
(***************************************************************************)
(* Model of pycoreux.process_utils.ProcessUtils: the single-command runner *)
(* (run) and the command-pipeline engine (pipe, _create_pipeline,          *)
(* _start_*_process, _execute_pipeline, _cleanup_processes).               *)
(*                                                                         *)
(* Texts (stdout, stderr, command descriptions, error messages) are        *)
(* sequences of strings.  A command string is its sequence of characters.  *)
(* Child processes are OS-scheduled: their steps interleave freely with    *)
(* the steps of the orchestrating thread.                                  *)
(***************************************************************************)
EXTENDS Integers, Sequences, FiniteSets, TLC

VARIABLES
    pc,         \* position of the orchestrating thread
    call,       \* the API call in progress: op, commands, shell, cwd, timeout, capture_output
    procs,      \* OS process table of the call: one record per spawned child, in spawn order
    processes,  \* pipe()'s local list `processes` (indices into procs)
    idx,        \* loop index of the wait loop / the cleanup loop
    acc,        \* what communicate() has read so far from the terminal stage
    exc,        \* text of the exception caught by pipe(), <<>> when none
    result,     \* <<>> or <<v>>, v the value returned by the call
    raised,     \* <<>> or the text of the exception the call raised to its caller
    history     \* <<>> or <<h>>, h the first run call of the behaviour and its outcome

vars == <<pc, call, procs, processes, idx, acc, exc, result, raised, history>>

-----------------------------------------------------------------------------
(* Bounds *)

MaxCmds == 3        \* longest command list handed to pipe
MaxTimeout == 3     \* largest timeout handed to run
PipeCap == 1        \* units an OS pipe buffers before a writer blocks
MaxChars == 4       \* longest file content
MaxN == 3           \* largest number of lines asked of head or tail
MaxLines == 4       \* longest list of lines handed to uniq
MaxSort == 3        \* longest list of lines handed to sort
MaxFuns == 3        \* most functions handed to TextUtils.pipe
MaxVal == 2         \* largest value handed to a pipeline of functions

-----------------------------------------------------------------------------
(* Commands and the programs behind them (the environment) *)

NoTimeout == 0      \* encodes timeout=None
Timeouts == 0..MaxTimeout

cmdSlow  == <<"s", " ", "'", "2", "'">>    \* sleeps, then prints
cmdCount == <<"c">>                        \* reads stdin to EOF, prints a count
cmdNoisy == <<"v">>                        \* floods stderr, prints, lingers
cmdBin   == <<"u">>                        \* prints a byte that is not UTF-8, exits 1
cmdNone  == <<"n">>                        \* no such binary
cmdQuote == <<"s", " ", "'">>              \* unclosed quote

Cmds == {cmdSlow, cmdCount, cmdNoisy, cmdBin, cmdNone, cmdQuote}

Cwds == {"None", "/missing"}

BadByte == "b'\\xff'"

RECURSIVE Repeat(_, _)
Repeat(u, k) == IF k = 0 THEN <<>> ELSE <<u>> \o Repeat(u, k - 1)

\* what the binary called name does: reads stdin or not, writes to stderr,
\* writes to stdout, exits; early: the output is written before it lingers
Prog(name) ==
    CASE name = <<"s">> -> [reads |-> FALSE, err |-> <<>>, out |-> <<"b's.out'">>,
                            exit |-> 0, dur |-> 2, early |-> FALSE]
      [] name = <<"c">> -> [reads |-> TRUE, err |-> <<>>, out |-> <<"b'c.out'">>,
                            exit |-> 0, dur |-> 0, early |-> TRUE]
      [] name = <<"v">> -> [reads |-> FALSE, err |-> Repeat("b'v.err'", PipeCap + 1),
                            out |-> <<"b'v.out'">>, exit |-> 0, dur |-> 2, early |-> TRUE]
      [] name = <<"u">> -> [reads |-> FALSE, err |-> <<>>, out |-> <<BadByte>>,
                            exit |-> 1, dur |-> 0, early |-> TRUE]

BinaryExists(name) == name \in {<<"s">>, <<"c">>, <<"v">>, <<"u">>}

\* /bin/sh reporting a command it cannot run
ShNotFound == [reads |-> FALSE, err |-> <<"b'sh: not found'">>, out |-> <<>>,
               exit |-> 127, dur |-> 0, early |-> TRUE]
ShSyntaxError == [reads |-> FALSE, err |-> <<"b'sh: Syntax error'">>, out |-> <<>>,
                  exit |-> 2, dur |-> 0, early |-> TRUE]

\* text=True decoding of one unit of output
DecodeUnit(u) ==
    CASE u = "b's.out'" -> "s.out"
      [] u = "b'c.out'" -> "c.out"
      [] u = "b'v.out'" -> "v.out"
      [] u = "b'v.err'" -> "v.err"
      [] u = "b'sh: not found'" -> "sh: not found"
      [] u = "b'sh: Syntax error'" -> "sh: Syntax error"
      [] OTHER -> u

Decodable(bytes) == \A i \in 1..Len(bytes) : bytes[i] /= BadByte
Decode(bytes) == [i \in 1..Len(bytes) |-> DecodeUnit(bytes[i])]

-----------------------------------------------------------------------------
(* shlex.split, str() and " | ".join *)

RECURSIVE SplitFrom(_, _, _, _, _, _)
\* s: text, i: position, tok: token being built, has: a token is open,
\* inq: inside single quotes, toks: tokens found so far
SplitFrom(s, i, tok, has, inq, toks) ==
    IF i > Len(s)
    THEN IF inq
         THEN [ok |-> FALSE, toks |-> <<>>]
         ELSE [ok |-> TRUE, toks |-> IF has THEN Append(toks, tok) ELSE toks]
    ELSE IF inq
         THEN IF s[i] = "'"
              THEN SplitFrom(s, i + 1, tok, TRUE, FALSE, toks)
              ELSE SplitFrom(s, i + 1, Append(tok, s[i]), TRUE, TRUE, toks)
         ELSE IF s[i] = "'"
              THEN SplitFrom(s, i + 1, tok, TRUE, TRUE, toks)
              ELSE IF s[i] = " "
                   THEN SplitFrom(s, i + 1, <<>>, FALSE, FALSE,
                                  IF has THEN Append(toks, tok) ELSE toks)
                   ELSE SplitFrom(s, i + 1, Append(tok, s[i]), TRUE, FALSE, toks)

ShlexSplit(s) == SplitFrom(s, 1, <<>>, FALSE, FALSE, <<>>)

RECURSIVE ReprItems(_, _)
ReprItems(toks, i) ==
    IF i > Len(toks) THEN <<>>
    ELSE (IF i > 1 THEN <<",", " ">> ELSE <<>>) \o <<"'">> \o toks[i] \o <<"'">>
         \o ReprItems(toks, i + 1)

\* str(command) of a tokenized command: the repr of the list
StrList(toks) == <<"[">> \o ReprItems(toks, 1) \o <<"]">>

RECURSIVE JoinFrom(_, _)
JoinFrom(cmds, i) ==
    IF i > Len(cmds) THEN <<>>
    ELSE (IF i > 1 THEN <<" ", "|", " ">> ELSE <<>>) \o cmds[i] \o JoinFrom(cmds, i + 1)

\* " | ".join(commands)
JoinPipe(cmds) == JoinFrom(cmds, 1)

ErrNoQuote == <<"No closing quotation">>
ErrNoFile(what) == <<"[Errno 2] No such file or directory: '">> \o what \o <<"'">>
ErrDecode == <<"'utf-8' codec can't decode byte 0xff">>
ErrEmpty == <<"At least one command is required">>
ErrIndex == <<"list index out of range">>
ErrTerminate == <<"[Errno 1] Operation not permitted">>

-----------------------------------------------------------------------------
(* Spawning: what subprocess.Popen / subprocess.run are asked to start *)

\* the program a successfully spawned command runs
Program(cmd, shell) ==
    LET sp == ShlexSplit(cmd) IN
    IF shell
    THEN IF ~sp.ok THEN ShSyntaxError
         ELSE IF sp.toks = <<>> \/ ~BinaryExists(sp.toks[1]) THEN ShNotFound
         ELSE Prog(sp.toks[1])
    ELSE Prog(sp.toks[1])

\* the error Popen raises for a command that tokenizes, <<>> when it spawns
PopenError(cmd, shell, cwd) ==
    LET toks == ShlexSplit(cmd).toks IN
    IF cwd = "/missing" THEN ErrNoFile(<<cwd>>)
    ELSE IF ~shell /\ toks = <<>> THEN ErrIndex
    ELSE IF ~shell /\ ~BinaryExists(toks[1]) THEN ErrNoFile(toks[1])
    ELSE <<>>

\* a child right after fork: the parent holds the read ends of its stdout
\* and stderr pipes
NewProc(cmd, prog) ==
    [cmd |-> cmd, state |-> "running", rc |-> 0, reaped |-> FALSE, sig |-> "none",
     stdinDone |-> ~prog.reads, errLeft |-> prog.err, outLeft |-> prog.out,
     exit |-> prog.exit, outBuf |-> <<>>, errBuf |-> <<>>,
     parentOut |-> TRUE, parentErr |-> TRUE, stdin |-> 0, killErr |-> FALSE]

\* a child that subprocess.run has run to its end, drained, closed and reaped
DoneProc(cmd, prog, rc, sig) ==
    [NewProc(cmd, prog) EXCEPT !.state = "exited", !.rc = rc, !.reaped = TRUE,
                               !.sig = sig, !.stdinDone = TRUE,
                               !.errLeft = <<>>, !.outLeft = <<>>,
                               !.parentOut = FALSE, !.parentErr = FALSE]

-----------------------------------------------------------------------------
(* ProcessUtils.run *)

ProcessResult(stdout, stderr, returncode, command) ==
    [stdout |-> stdout, stderr |-> stderr, returncode |-> returncode, command |-> command]

\* str(command) after the tokenization of lines 55-56
StrCommand(cmd, shell) == IF shell THEN cmd ELSE StrList(ShlexSplit(cmd).toks)

TimeoutMessage(timeout) == <<"Command timed out after ", ToString(timeout), " seconds">>

\* the process outlives the timeout
TimesOutFirstCallOnly(prog, timeout) ==
    history = <<>> /\ timeout /= NoTimeout /\ prog.dur >= timeout

TimesOut(prog, timeout) == timeout /= NoTimeout /\ prog.dur >= timeout

\* TimeoutExpired.stdout: the bytes read before the timeout, undecoded
CapturedBefore(prog, capture) == IF capture /\ prog.early THEN prog.out ELSE <<>>

CompletedResultMasked(prog, capture, desc) ==
    ProcessResult(IF capture THEN Decode(prog.out) ELSE <<>>,
                  IF capture THEN Decode(prog.err) ELSE <<>>,
                  IF prog.exit = 0 THEN 0 ELSE -1, desc)

CompletedResult(prog, capture, desc) ==
    ProcessResult(IF capture THEN Decode(prog.out) ELSE <<>>,
                  IF capture THEN Decode(prog.err) ELSE <<>>,
                  prog.exit, desc)

TimeoutResultNoOutput(captured, timeout, desc) ==
    ProcessResult(<<>>, TimeoutMessage(timeout), -1, desc)

TimeoutResult(captured, timeout, desc) ==
    ProcessResult(captured, TimeoutMessage(timeout), -1, desc)

ErrorResultSilent(e, desc) == ProcessResult(<<>>, <<>>, -1, desc)

ErrorResult(e, desc) == ProcessResult(<<>>, e, -1, desc)

\* the whole of run: what is raised, what is returned, the process it ran
RunOutcome(cmd, shell, cwd, timeout, capture) ==
    IF ~shell /\ ~ShlexSplit(cmd).ok
    THEN [raised |-> ErrNoQuote, result |-> <<>>, procs |-> <<>>]
    ELSE LET desc == StrCommand(cmd, shell)
             perr == PopenError(cmd, shell, cwd)
             prog == Program(cmd, shell)
         IN  IF perr /= <<>>
             THEN [raised |-> <<>>, result |-> <<ErrorResult(perr, desc)>>, procs |-> <<>>]
             ELSE IF TimesOut(prog, timeout)
             THEN [raised |-> <<>>,
                   result |-> <<TimeoutResult(CapturedBefore(prog, capture), timeout, desc)>>,
                   procs |-> <<DoneProc(cmd, prog, -9, "KILL")>>]
             ELSE IF capture /\ ~(Decodable(prog.out) /\ Decodable(prog.err))
             THEN [raised |-> <<>>, result |-> <<ErrorResult(ErrDecode, desc)>>,
                   procs |-> <<DoneProc(cmd, prog, prog.exit, "none")>>]
             ELSE [raised |-> <<>>, result |-> <<CompletedResult(prog, capture, desc)>>,
                   procs |-> <<DoneProc(cmd, prog, prog.exit, "none")>>]

\* the state after a call that ran as one blocking subprocess.run
Finish(o) ==
    /\ pc' = IF o.raised /= <<>> THEN "raised" ELSE "returned"
    /\ procs' = o.procs
    /\ result' = o.result
    /\ raised' = o.raised
    /\ processes' = <<>>
    /\ idx' = 0
    /\ acc' = [out |-> <<>>, err |-> <<>>]
    /\ exc' = <<>>
    /\ history' = history

Run ==
    /\ pc = "idle"
    /\ \E cmd \in Cmds, shell \in BOOLEAN, cwd \in Cwds, timeout \in Timeouts,
          capture \in BOOLEAN :
          /\ call' = [op |-> "run", commands |-> <<cmd>>, shell |-> shell, cwd |-> cwd,
                      timeout |-> timeout, capture |-> capture]
          /\ Finish(RunOutcome(cmd, shell, cwd, timeout, capture))

-----------------------------------------------------------------------------
(* ProcessUtils.capture *)

CaptureValueStderr(r) == r.stderr

\* result.stdout
CaptureValue(r) == r.stdout

\* capture on top of the outcome o of run
CaptureOutcome(o) ==
    [raised |-> o.raised,
     result |-> IF o.result = <<>> THEN <<>> ELSE <<CaptureValue(o.result[1])>>,
     procs |-> o.procs]

Capture ==
    /\ pc = "idle"
    /\ \E cmd \in Cmds, shell \in BOOLEAN, cwd \in Cwds, timeout \in Timeouts,
          capture \in BOOLEAN :
          /\ call' = [op |-> "capture", commands |-> <<cmd>>, shell |-> shell,
                      cwd |-> cwd, timeout |-> timeout, capture |-> capture]
          /\ Finish(CaptureOutcome(RunOutcome(cmd, shell, cwd, timeout, capture)))

-----------------------------------------------------------------------------
(* ProcessUtils.pipe: entry *)

PipeCall(cmds, shell) ==
    [op |-> "pipe", commands |-> cmds, shell |-> shell, cwd |-> "None",
     timeout |-> NoTimeout, capture |-> TRUE]

\* the command lists a caller hands to pipe
CmdLists == UNION {[1..n -> Cmds] : n \in 0..MaxCmds}

IsEmptyNever(cmds) == FALSE

IsEmpty(cmds) == Len(cmds) = 0

IsSingle(cmds) == Len(cmds) = 1

DelegateDefaultShell(cmds, shell) == RunOutcome(cmds[1], TRUE, "None", NoTimeout, TRUE)

\* the delegation of a one-command pipeline to run
Delegate(cmds, shell) == RunOutcome(cmds[1], shell, "None", NoTimeout, TRUE)

PipeEmpty ==
    /\ pc = "idle"
    /\ \E cmds \in CmdLists, shell \in BOOLEAN :
          /\ IsEmpty(cmds)
          /\ call' = PipeCall(cmds, shell)
          /\ Finish([raised |-> ErrEmpty, result |-> <<>>, procs |-> <<>>])

PipeSingle ==
    /\ pc = "idle"
    /\ \E cmds \in CmdLists, shell \in BOOLEAN :
          /\ ~IsEmpty(cmds)
          /\ IsSingle(cmds)
          /\ call' = PipeCall(cmds, shell)
          /\ Finish(Delegate(cmds, shell))

PipeMultiOf(lists) ==
    /\ pc = "idle"
    /\ \E cmds \in lists, shell \in BOOLEAN :
          /\ ~IsEmpty(cmds)
          /\ ~IsSingle(cmds)
          /\ call' = PipeCall(cmds, shell)
    /\ pc' = "create"
    /\ procs' = <<>>
    /\ processes' = <<>>
    /\ idx' = 0
    /\ acc' = [out |-> <<>>, err |-> <<>>]
    /\ exc' = <<>>
    /\ result' = <<>>
    /\ raised' = <<>>
    /\ history' = history

PipeMulti == PipeMultiOf(CmdLists)

\* pipe with a two-stage pipeline
PipePair == PipeMultiOf({<<a, b>> : a, b \in Cmds})

-----------------------------------------------------------------------------
(* _create_pipeline and _start_first/_middle/_last_process *)

\* the exception raised by one _start_*_process call, <<>> when it spawns
StartError(cmd, shell) ==
    IF ~shell /\ ~ShlexSplit(cmd).ok THEN ErrNoQuote
    ELSE PopenError(cmd, shell, "None")

PipedFromFirst(p, k) == [p EXCEPT !.stdin = 1]

\* stdin=prev_proc.stdout: p reads the stdout pipe of stage k (0: p inherits
\* the stdin of the parent)
PipedFrom(p, k) == [p EXCEPT !.stdin = k]

CloseHandedOffNever(p) == p

\* prev_proc.stdout.close() after the hand-off to the next stage
CloseHandedOff(p) == [p EXCEPT !.parentOut = FALSE]

\* the except clause of pipe is entered with exception e
Catch(e) ==
    /\ exc' = e
    /\ pc' = "cleanup"
    /\ idx' = 1

\* the list _create_pipeline returns, as pipe receives it
Created(n) == [i \in 1..n |-> i]

StartFirst ==
    /\ pc = "create"
    /\ Len(procs) = 0
    /\ IF Len(call.commands) = 0
       THEN Catch(ErrIndex) /\ UNCHANGED <<procs, processes>>
       ELSE LET cmd == call.commands[1]
                e == StartError(cmd, call.shell)
            IN  IF e /= <<>>
                THEN Catch(e) /\ UNCHANGED <<procs, processes>>
                ELSE /\ procs' = <<NewProc(cmd, Program(cmd, call.shell))>>
                     /\ IF Len(call.commands) > 1
                        THEN UNCHANGED <<pc, processes, exc, idx>>
                        ELSE /\ pc' = "communicate"
                             /\ processes' = Created(1)
                             /\ UNCHANGED <<exc, idx>>
    /\ UNCHANGED <<call, history, acc, result, raised>>

StartMiddle ==
    /\ pc = "create"
    /\ Len(procs) >= 1
    /\ Len(procs) < Len(call.commands) - 1
    /\ LET k == Len(procs)
           cmd == call.commands[k + 1]
           e == StartError(cmd, call.shell)
       IN  IF e /= <<>>
           THEN Catch(e) /\ UNCHANGED procs
           ELSE /\ procs' = Append([procs EXCEPT ![k] = CloseHandedOff(@)],
                                   PipedFrom(NewProc(cmd, Program(cmd, call.shell)), k))
                /\ UNCHANGED <<pc, exc, idx>>
    /\ UNCHANGED <<call, history, processes, acc, result, raised>>

StartLast ==
    /\ pc = "create"
    /\ Len(procs) >= 1
    /\ Len(procs) = Len(call.commands) - 1
    /\ LET k == Len(procs)
           cmd == call.commands[k + 1]
           e == StartError(cmd, call.shell)
       IN  IF e /= <<>>
           THEN Catch(e) /\ UNCHANGED <<procs, processes>>
           ELSE /\ procs' = Append([procs EXCEPT ![k] = CloseHandedOff(@)],
                                   PipedFrom(NewProc(cmd, Program(cmd, call.shell)), k))
                /\ processes' = Created(k + 1)
                /\ pc' = "communicate"
                /\ UNCHANGED <<exc, idx>>
    /\ UNCHANGED <<call, history, acc, result, raised>>

-----------------------------------------------------------------------------
(* The children: one OS process per stage *)

Running(i) == i \in 1..Len(procs) /\ procs[i].state = "running"

Exits(p, rc, sig) == [p EXCEPT !.state = "exited", !.rc = rc, !.sig = sig]

\* someone still holds the read end of stage i's stdout pipe
HasReader(i) ==
    \/ procs[i].parentOut
    \/ \E j \in 1..Len(procs) : procs[j].stdin = i /\ procs[j].state = "running"

\* stage i reads its stdin: the terminal's for the first stage (at end of
\* input), the previous stage's stdout pipe for the others
ChildRead(i) ==
    /\ Running(i)
    /\ ~procs[i].stdinDone
    /\ IF procs[i].stdin = 0
       THEN procs' = [procs EXCEPT ![i].stdinDone = TRUE]
       ELSE IF procs[procs[i].stdin].outBuf /= <<>>
            THEN procs' = [procs EXCEPT ![procs[i].stdin].outBuf = Tail(@)]
            ELSE /\ procs[procs[i].stdin].state = "exited"
                 /\ procs' = [procs EXCEPT ![i].stdinDone = TRUE]
    /\ UNCHANGED <<pc, call, history, processes, idx, acc, exc, result, raised>>

WriteErrMerged(p, u) == [p EXCEPT !.outBuf = Append(@, u), !.errLeft = Tail(@)]

\* a write to stderr goes to the stage's own stderr pipe (stderr=subprocess.PIPE)
WriteErr(p, u) == [p EXCEPT !.errBuf = Append(@, u), !.errLeft = Tail(@)]

ChildWriteErr(i) ==
    /\ Running(i)
    /\ procs[i].stdinDone
    /\ procs[i].errLeft /= <<>>
    /\ IF ~procs[i].parentErr
       THEN procs' = [procs EXCEPT ![i] = Exits(@, -13, "PIPE")]
       ELSE /\ Len(procs[i].errBuf) < PipeCap
            /\ procs' = [procs EXCEPT ![i] = WriteErr(@, Head(procs[i].errLeft))]
    /\ UNCHANGED <<pc, call, history, processes, idx, acc, exc, result, raised>>

ChildWriteOut(i) ==
    /\ Running(i)
    /\ procs[i].stdinDone
    /\ procs[i].errLeft = <<>>
    /\ procs[i].outLeft /= <<>>
    /\ IF ~HasReader(i)
       THEN procs' = [procs EXCEPT ![i] = Exits(@, -13, "PIPE")]
       ELSE /\ Len(procs[i].outBuf) < PipeCap
            /\ procs' = [procs EXCEPT ![i].outBuf = Append(@, Head(procs[i].outLeft)),
                                      ![i].outLeft = Tail(@)]
    /\ UNCHANGED <<pc, call, history, processes, idx, acc, exc, result, raised>>

ChildExit(i) ==
    /\ Running(i)
    /\ procs[i].stdinDone
    /\ procs[i].errLeft = <<>>
    /\ procs[i].outLeft = <<>>
    /\ procs' = [procs EXCEPT ![i] = Exits(@, procs[i].exit, procs[i].sig)]
    /\ UNCHANGED <<pc, call, history, processes, idx, acc, exc, result, raised>>

\* a stage that was sent SIGTERM dies of it
ChildDie(i) ==
    /\ Running(i)
    /\ procs[i].sig = "TERM"
    /\ procs' = [procs EXCEPT ![i] = Exits(@, -15, "TERM")]
    /\ UNCHANGED <<pc, call, history, processes, idx, acc, exc, result, raised>>

-----------------------------------------------------------------------------
(* _execute_pipeline *)

\* last_proc = processes[-1]
LastProc == processes[Len(processes)]

\* communicate() reads what the terminal stage has written to its stdout
CommDrainOut ==
    /\ pc = "communicate"
    /\ procs[LastProc].outBuf /= <<>>
    /\ acc' = [acc EXCEPT !.out = Append(@, Head(procs[LastProc].outBuf))]
    /\ procs' = [procs EXCEPT ![LastProc].outBuf = Tail(@)]
    /\ UNCHANGED <<pc, call, history, processes, idx, exc, result, raised>>

\* communicate() reads what the terminal stage has written to its stderr
CommDrainErr ==
    /\ pc = "communicate"
    /\ procs[LastProc].errBuf /= <<>>
    /\ acc' = [acc EXCEPT !.err = Append(@, Head(procs[LastProc].errBuf))]
    /\ procs' = [procs EXCEPT ![LastProc].errBuf = Tail(@)]
    /\ UNCHANGED <<pc, call, history, processes, idx, exc, result, raised>>

DrainedWhenExited(p) == p.state = "exited"

\* end-of-file on both streams of p: p has ended and nothing it wrote is
\* left in its pipes
Drained(p) ==
    /\ p.state = "exited"
    /\ p.outBuf = <<>>
    /\ p.errBuf = <<>>

\* communicate() sees end-of-file on both streams, closes them, waits for
\* the terminal stage and decodes what it read
CommFinish ==
    /\ pc = "communicate"
    /\ Drained(procs[LastProc])
    /\ procs' = [procs EXCEPT ![LastProc].parentOut = FALSE,
                              ![LastProc].parentErr = FALSE,
                              ![LastProc].reaped = TRUE]
    /\ IF Decodable(acc.out) /\ Decodable(acc.err)
       THEN /\ acc' = [out |-> Decode(acc.out), err |-> Decode(acc.err)]
            /\ pc' = "wait"
            /\ idx' = 1
            /\ UNCHANGED exc
       ELSE /\ Catch(ErrDecode)
            /\ UNCHANGED acc
    /\ UNCHANGED <<call, history, processes, result, raised>>

WaitListLastOnly(ps) == <<ps[Len(ps)]>>

\* the processes the loop `for proc in processes: proc.wait()` goes through
WaitList(ps) == ps

\* proc.wait(): blocks until the process has exited, then records its status
WaitStage ==
    /\ pc = "wait"
    /\ idx <= Len(WaitList(processes))
    /\ procs[WaitList(processes)[idx]].state = "exited"
    /\ procs' = [procs EXCEPT ![WaitList(processes)[idx]].reaped = TRUE]
    /\ idx' = idx + 1
    /\ UNCHANGED <<pc, call, history, processes, acc, exc, result, raised>>

PipelineReturncodeFirst(ps, last) == ps[1].rc

\* last_proc.returncode
PipelineReturncode(ps, last) == ps[last].rc

PipelineResultLastCommand(stdout, stderr, ps, last, cmds) ==
    ProcessResult(stdout, stderr, PipelineReturncode(ps, last), cmds[Len(cmds)])

PipelineResult(stdout, stderr, ps, last, cmds) ==
    ProcessResult(stdout, stderr, PipelineReturncode(ps, last), JoinPipe(cmds))

\* the Popen objects the call leaves behind hold pipe ends open
Unclosed == {i \in 1..Len(procs) : procs[i].parentOut \/ procs[i].parentErr}

\* the runtime finalizes the unreferenced Popen objects in fin, closing their
\* pipe ends; the others keep theirs
Finalize(ps, fin) ==
    [i \in 1..Len(ps) |->
        IF i \in fin THEN [ps[i] EXCEPT !.parentOut = FALSE, !.parentErr = FALSE]
        ELSE ps[i]]

PipeReturn ==
    /\ pc = "wait"
    /\ idx > Len(WaitList(processes))
    /\ result' = <<PipelineResult(acc.out, acc.err, procs, LastProc, call.commands)>>
    /\ \E fin \in SUBSET Unclosed : procs' = Finalize(procs, fin)
    /\ pc' = "returned"
    /\ UNCHANGED <<call, history, processes, idx, acc, exc, raised>>

-----------------------------------------------------------------------------
(* The except clause of pipe and _cleanup_processes *)

\* proc.terminate(): polls first, signals only a process not known to have
\* exited
Terminate(p) ==
    IF p.state = "exited" THEN [p EXCEPT !.reaped = TRUE]
    ELSE [p EXCEPT !.sig = "TERM"]

\* what proc.terminate() may raise: nothing (<<>>), or for a process it has
\* to signal, the error of the signal not being permitted
TerminateErrors(p) ==
    IF p.state = "exited" THEN {<<>>} ELSE {<<>>, ErrTerminate}

CleanupSwallowsNothing(e) == FALSE

\* except Exception: pass
CleanupSwallows(e) == TRUE

\* one round of the loop of _cleanup_processes
CleanupTerminate ==
    /\ pc = "cleanup"
    /\ idx <= Len(processes)
    /\ \E e \in TerminateErrors(procs[processes[idx]]) :
          IF e = <<>>
          THEN /\ procs' = [procs EXCEPT ![processes[idx]] = Terminate(@)]
               /\ idx' = idx + 1
               /\ UNCHANGED <<pc, raised>>
          ELSE IF CleanupSwallows(e)
               THEN /\ procs' = [procs EXCEPT ![processes[idx]].killErr = TRUE]
                    /\ idx' = idx + 1
                    /\ UNCHANGED <<pc, raised>>
               ELSE /\ pc' = "raised"
                    /\ raised' = e
                    /\ UNCHANGED <<procs, idx>>
    /\ UNCHANGED <<call, history, processes, acc, exc, result>>

FailureResultAsExit(e, cmds) == ProcessResult(<<>>, e, 1, JoinPipe(cmds))

FailureResult(e, cmds) == ProcessResult(<<>>, e, -1, JoinPipe(cmds))

CleanupReturn ==
    /\ pc = "cleanup"
    /\ idx > Len(processes)
    /\ result' = <<FailureResult(exc, call.commands)>>
    /\ \E fin \in SUBSET Unclosed : procs' = Finalize(procs, fin)
    /\ pc' = "returned"
    /\ UNCHANGED <<call, history, processes, idx, acc, exc, raised>>

-----------------------------------------------------------------------------
(* FileOps.head and FileOps.tail *)

Contents == UNION {[1..k -> {"a", "b", "\n"}] : k \in 0..MaxChars}
Counts == 0..MaxN

ErrNotFound == <<"File not found">>

RECURSIVE ReadFrom(_, _, _)
\* s: content, i: position, cur: line being read
ReadFrom(s, i, cur) ==
    IF i > Len(s) THEN (IF cur = <<>> THEN <<>> ELSE <<cur>>)
    ELSE IF s[i] = "\n" THEN <<Append(cur, "\n")>> \o ReadFrom(s, i + 1, <<>>)
    ELSE ReadFrom(s, i + 1, Append(cur, s[i]))

\* file.readlines(), and the lines iterating over the file gives: each line
\* with its terminator
ReadLines(s) == ReadFrom(s, 1, <<>>)

RECURSIVE RStripNl(_)
\* line.rstrip("\n")
RStripNl(line) ==
    IF line /= <<>> /\ line[Len(line)] = "\n"
    THEN RStripNl(SubSeq(line, 1, Len(line) - 1))
    ELSE line

RECURSIVE JoinNlFrom(_, _)
JoinNlFrom(ls, i) ==
    IF i > Len(ls) THEN <<>>
    ELSE (IF i > 1 THEN <<"\n">> ELSE <<>>) \o ls[i] \o JoinNlFrom(ls, i + 1)

\* "\n".join(ls)
JoinNl(ls) == JoinNlFrom(ls, 1)

Min(a, b) == IF a < b THEN a ELSE b

\* the lines of a text, in order, without their terminators
Lines(text) == [i \in 1..Len(ReadLines(text)) |-> RStripNl(ReadLines(text)[i])]

RECURSIVE SplitNlFrom(_, _, _)
SplitNlFrom(s, i, cur) ==
    IF i > Len(s) THEN <<cur>>
    ELSE IF s[i] = "\n" THEN <<cur>> \o SplitNlFrom(s, i + 1, <<>>)
    ELSE SplitNlFrom(s, i + 1, Append(cur, s[i]))

\* s.split("\n"): the lines a text of newline-joined lines is made of
SplitNl(s) == SplitNlFrom(s, 1, <<>>)

\* the call op(kw=..., lines=n); kw = "filepath": the file holds text, or is
\* missing; kw = "content": text is handed over itself
FileCall(op, kw, exists, text, n) ==
    [op |-> op, kw |-> kw, exists |-> exists, text |-> text, n |-> n]

Returns(v) == Finish([raised |-> <<>>, result |-> <<v>>, procs |-> <<>>])
Raises(e) == Finish([raised |-> e, result |-> <<>>, procs |-> <<>>])

HeadStopAfter(i, n) == i > n

\* if i >= lines: break
HeadStop(i, n) == i >= n

RECURSIVE HeadLoop(_, _, _)
\* the loop of head at index i of enumerate(file)
HeadLoop(ls, i, n) ==
    IF i >= Len(ls) \/ HeadStop(i, n) THEN <<>>
    ELSE <<RStripNl(ls[i + 1])>> \o HeadLoop(ls, i + 1, n)

head ==
    /\ pc = "idle"
    /\ \E kw \in {"filepath", "content"}, exists \in BOOLEAN, text \in Contents,
          n \in Counts :
          /\ exists \/ (kw = "filepath" /\ text = <<>>)
          /\ call' = FileCall("head", kw, exists, text, n)
          /\ IF kw \notin {"filepath", "lines"}
             THEN Raises(<<"got an unexpected keyword argument '", kw, "'">>)
             ELSE IF ~exists THEN Raises(ErrNotFound)
             ELSE Returns(JoinNl(HeadLoop(ReadLines(text), 0, n)))

\* where the slice s[k:] of a sequence of length len starts (0-based)
PySliceStart(k, len) ==
    IF k < 0 THEN (IF len + k < 0 THEN 0 ELSE len + k)
    ELSE (IF k > len THEN len ELSE k)

\* [line.rstrip("\n") for line in all_lines[-lines:]]
LastLines(all, n) ==
    LET from == PySliceStart(0 - n, Len(all))
    IN  [i \in 1..(Len(all) - from) |-> RStripNl(all[from + i])]

tail ==
    /\ pc = "idle"
    /\ \E exists \in BOOLEAN, text \in Contents, n \in Counts :
          /\ exists \/ text = <<>>
          /\ call' = FileCall("tail", "filepath", exists, text, n)
          /\ IF ~exists THEN Raises(ErrNotFound)
             ELSE Returns(JoinNl(LastLines(ReadLines(text), n)))

-----------------------------------------------------------------------------
(* FileOps.wc *)

WcContents == UNION {[1..k -> {"a", " ", "\n"}] : k \in 0..MaxChars}

\* the characters str.split() splits at
IsSpace(c) == c \in {" ", "\n", "\t"}

RECURSIVE CountNl(_, _)
\* content.count("\n"), from position i on
CountNl(content, i) ==
    IF i > Len(content) THEN 0
    ELSE (IF content[i] = "\n" THEN 1 ELSE 0) + CountNl(content, i + 1)

WcLinesNewlinesOnly(content) == CountNl(content, 1)

\* lines = content.count("\n"), plus one for an unterminated last line
WcLines(content) ==
    CountNl(content, 1)
        + (IF content /= <<>> /\ content[Len(content)] /= "\n" THEN 1 ELSE 0)

RECURSIVE SplitWords(_, _, _)
\* content.split(): i: position, cur: word being read
SplitWords(content, i, cur) ==
    IF i > Len(content) THEN (IF cur = <<>> THEN <<>> ELSE <<cur>>)
    ELSE IF IsSpace(content[i])
         THEN (IF cur = <<>> THEN <<>> ELSE <<cur>>) \o SplitWords(content, i + 1, <<>>)
         ELSE SplitWords(content, i + 1, Append(cur, content[i]))

\* (lines, words, chars)
WcResult(content) ==
    <<WcLines(content), Len(SplitWords(content, 1, <<>>)), Len(content)>>

wc ==
    /\ pc = "idle"
    /\ \E exists \in BOOLEAN, text \in WcContents :
          /\ exists \/ text = <<>>
          /\ call' = FileCall("wc", "filepath", exists, text, 0)
          /\ IF ~exists THEN Raises(ErrNotFound)
             ELSE Returns(WcResult(text))

-----------------------------------------------------------------------------
(* TextUtils.grep *)

RECURSIVE Digits(_)
\* the decimal digits of k
Digits(k) ==
    IF k < 10 THEN <<ToString(k)>>
    ELSE Digits(k \div 10) \o <<ToString(k % 10)>>

\* the case folding of re.IGNORECASE
Fold(c) == IF c = "A" THEN "a" ELSE c

\* bool(compiled_pattern.search(line))
Search(pattern, line, ignore_case) ==
    IF pattern = <<"^", "$">> THEN line = <<>>
    ELSE \E i \in 1..Len(line) :
            IF ignore_case THEN Fold(line[i]) = Fold(pattern[1])
            ELSE line[i] = pattern[1]

\* the lines grep searches: those read from the file, or content.split("\n")
GrepLines(form, text) ==
    IF form = "filepath" THEN Lines(text) ELSE SplitNl(text)

\* if matches != invert
GrepKeeps(matches, invert) == matches /= invert

RECURSIVE GrepLoop(_, _, _, _, _, _)
\* the loop of grep at lines[line_num]
GrepLoop(lines, line_num, pattern, ignore_case, line_numbers, invert) ==
    IF line_num > Len(lines) THEN <<>>
    ELSE (IF GrepKeeps(Search(pattern, lines[line_num], ignore_case), invert)
          THEN <<(IF line_numbers THEN Digits(line_num) \o <<":", " ">> ELSE <<>>)
                     \o lines[line_num]>>
          ELSE <<>>)
         \o GrepLoop(lines, line_num + 1, pattern, ignore_case, line_numbers, invert)

GrepResult(pattern, form, text, ignore_case, line_numbers, invert) ==
    JoinNl(GrepLoop(GrepLines(form, text), 1, pattern, ignore_case, line_numbers,
                    invert))

\* pattern: a letter, a capital letter or the empty line; form: which of
\* filepath= and content= the caller gives
grep ==
    /\ pc = "idle"
    /\ \E pattern \in {<<"a">>, <<"A">>, <<"^", "$">>},
          form \in {"filepath", "content", "none", "both"},
          exists \in BOOLEAN, text \in Contents, ignore_case \in BOOLEAN,
          line_numbers \in BOOLEAN, invert \in BOOLEAN :
          /\ exists \/ (form = "filepath" /\ text = <<>>)
          /\ form \in {"none", "both"} => text = <<>>
          /\ call' = [op |-> "grep", pattern |-> pattern, form |-> form,
                      exists |-> exists, text |-> text, ignore_case |-> ignore_case,
                      line_numbers |-> line_numbers, invert |-> invert]
          /\ IF form = "none"
             THEN Raises(<<"Either filepath or content must be provided">>)
             ELSE IF form = "both"
             THEN Raises(<<"filepath and content are mutually exclusive">>)
             ELSE IF ~exists THEN Raises(ErrNotFound)
             ELSE Returns(GrepResult(pattern, form, text, ignore_case,
                                     line_numbers, invert))

-----------------------------------------------------------------------------
(* TextUtils.uniq *)

CountWidth == 7     \* the width in the format " >7"

\* the lines uniq is handed: texts without a line terminator
LineLists == UNION {[1..k -> {<<>>, <<"a">>, <<"b">>}] : k \in 0..MaxLines}

\* s right-aligned in w columns, as the format " >w" does
PadLeft(s, w) == Repeat(" ", IF Len(s) < w THEN w - Len(s) ELSE 0) \o s

\* the line appended to result for a run of cnt lines equal to line
UniqLine(cnt, line, count) ==
    IF count THEN PadLeft(Digits(cnt), CountWidth) \o <<" ">> \o line
    ELSE line

UniqSameLength(line, current_line) == Len(line) = Len(current_line)

\* line == current_line
UniqSame(line, current_line) == line = current_line

RECURSIVE UniqLoop(_, _, _, _, _)
\* the loop of uniq at lines[i], and the append after it
UniqLoop(lines, i, current_line, current_count, count) ==
    IF i > Len(lines) THEN <<UniqLine(current_count, current_line, count)>>
    ELSE IF UniqSame(lines[i], current_line)
         THEN UniqLoop(lines, i + 1, current_line, current_count + 1, count)
         ELSE <<UniqLine(current_count, current_line, count)>>
                  \o UniqLoop(lines, i + 1, lines[i], 1, count)

UniqResult(lines, count) ==
    IF lines = <<>> THEN <<>>
    ELSE JoinNl(UniqLoop(lines, 2, lines[1], 1, count))

uniq ==
    /\ pc = "idle"
    /\ \E lines \in LineLists, count \in BOOLEAN :
          /\ call' = [op |-> "uniq", lines |-> lines, count |-> count]
          /\ Returns(UniqResult(lines, count))

-----------------------------------------------------------------------------
(* TextUtils.sort *)

DigitValue(c) == CHOOSE d \in 0..9 : ToString(d) = c

RECURSIVE ParseFrom(_, _, _)
ParseFrom(s, i, v) ==
    IF i > Len(s) THEN v
    ELSE IF s[i] = " " THEN ParseFrom(s, i + 1, v)
    ELSE ParseFrom(s, i + 1, 10 * v + DigitValue(s[i]))

\* the number printed in a field of blanks and digits
ParseCount(field) == ParseFrom(field, 1, 0)

\* the lines sort is handed: blank, numbers, a word, a line as uniq counts it
SortLists ==
    UNION {[1..k -> {<<>>, <<"2">>, <<"1", "0">>, <<"b">>, <<" ", "3", " ", "b">>}] :
              k \in 0..MaxSort}

\* the code point of a character
CharCode(c) ==
    CASE c = "\n" -> 10
      [] c = " " -> 32
      [] c \in {"0", "1", "2", "3", "4", "5", "6", "7", "8", "9"} -> 48 + DigitValue(c)
      [] c = "A" -> 65
      [] c = "a" -> 97
      [] c = "b" -> 98

RECURSIVE StrLess(_, _)
\* s < t on strings
StrLess(s, t) ==
    IF s = <<>> THEN t /= <<>>
    ELSE IF t = <<>> THEN FALSE
    ELSE IF s[1] = t[1] THEN StrLess(Tail(s), Tail(t))
    ELSE CharCode(s[1]) < CharCode(t[1])

RECURSIVE LStrip(_)
LStrip(s) == IF s /= <<>> /\ s[1] = " " THEN LStrip(Tail(s)) ELSE s

RECURSIVE RStrip(_)
RStrip(s) ==
    IF s /= <<>> /\ s[Len(s)] = " " THEN RStrip(SubSeq(s, 1, Len(s) - 1)) ELSE s

\* line.strip()
Strip(line) == LStrip(RStrip(line))

RECURSIVE FirstField(_)
\* stripped.split(None, 1)[0]
FirstField(stripped) ==
    IF stripped = <<>> \/ stripped[1] = " " THEN <<>>
    ELSE <<stripped[1]>> \o FirstField(Tail(stripped))

\* float(s) accepts s: the decimal numbers without sign, point and exponent
IsNumber(s) ==
    /\ s /= <<>>
    /\ \A i \in 1..Len(s) : s[i] \in {"0", "1", "2", "3", "4", "5", "6", "7", "8", "9"}

\* numeric_key(line); ok = FALSE: it raises ValueError
NumericKey(line) ==
    LET stripped == Strip(line)
    IN  IF stripped = <<>> THEN [ok |-> TRUE, value |-> 0]
        ELSE IF IsNumber(FirstField(stripped))
             THEN [ok |-> TRUE, value |-> ParseCount(FirstField(stripped))]
        ELSE IF IsNumber(stripped)
             THEN [ok |-> TRUE, value |-> ParseCount(stripped)]
        ELSE [ok |-> FALSE, value |-> 0]

SortBeforeAscending(x, y, reverse, numeric) ==
    IF numeric THEN NumericKey(x).value < NumericKey(y).value ELSE StrLess(x, y)

\* x has to come before y in sorted(lines, key=..., reverse=reverse)
SortBefore(x, y, reverse, numeric) ==
    LET lt(a, b) == IF numeric THEN NumericKey(a).value < NumericKey(b).value
                    ELSE StrLess(a, b)
    IN  IF reverse THEN lt(y, x) ELSE lt(x, y)

RECURSIVE Insert(_, _, _, _)
\* x put into the sorted s behind the lines it does not have to come before
Insert(x, s, reverse, numeric) ==
    IF s = <<>> THEN <<x>>
    ELSE IF SortBefore(x, Head(s), reverse, numeric) THEN <<x>> \o s
    ELSE <<Head(s)>> \o Insert(x, Tail(s), reverse, numeric)

RECURSIVE Sorted(_, _, _, _)
\* sorted(lines[:k], ...): a stable sort
Sorted(lines, k, reverse, numeric) ==
    IF k = 0 THEN <<>>
    ELSE Insert(lines[k], Sorted(lines, k - 1, reverse, numeric), reverse, numeric)

SortResult(lines, reverse, numeric) ==
    IF numeric /\ \A i \in 1..Len(lines) : NumericKey(lines[i]).ok
    THEN JoinNl(Sorted(lines, Len(lines), reverse, TRUE))
    ELSE JoinNl(Sorted(lines, Len(lines), reverse, FALSE))

sort ==
    /\ pc = "idle"
    /\ \E lines \in SortLists, reverse \in BOOLEAN, numeric \in BOOLEAN :
          /\ call' = [op |-> "sort", lines |-> lines, reverse |-> reverse,
                      numeric |-> numeric]
          /\ Returns(SortResult(lines, reverse, numeric))

-----------------------------------------------------------------------------
(* TextUtils.pipe *)

\* the functions the caller chains: they do not commute
FunLists == UNION {[1..k -> {"inc", "dbl"}] : k \in 0..MaxFuns}
Vals == 0..MaxVal

\* f(x)
Apply(f, x) == IF f = "inc" THEN x + 1 ELSE 2 * x

RECURSIVE Reduce(_, _, _)
\* reduce(lambda acc, f: f(acc), functions, x), at functions[i] with acc = a
Reduce(functions, i, a) ==
    IF i > Len(functions) THEN a
    ELSE Reduce(functions, i + 1, Apply(functions[i], a))

PipelineReversed(functions, x) ==
    Reduce([i \in 1..Len(functions) |-> functions[Len(functions) + 1 - i]], 1, x)

\* the function pipe returns, called with x
Pipeline(functions, x) == Reduce(functions, 1, x)

\* pipeline = TextUtils.pipe(*functions); pipeline(x)
TextPipe ==
    /\ pc = "idle"
    /\ \E functions \in FunLists, x \in Vals :
          /\ call' = [op |-> "textpipe", functions |-> functions, x |-> x]
          /\ Returns(Pipeline(functions, x))

-----------------------------------------------------------------------------
(* Specification *)

Init ==
    /\ pc = "idle"
    /\ call = [op |-> "none", commands |-> <<>>, shell |-> TRUE, cwd |-> "None",
               timeout |-> NoTimeout, capture |-> TRUE]
    /\ procs = <<>>
    /\ processes = <<>>
    /\ idx = 0
    /\ acc = [out |-> <<>>, err |-> <<>>]
    /\ exc = <<>>
    /\ result = <<>>
    /\ raised = <<>>
    /\ history = <<>>

\* the state every call starts from
Forget ==
    /\ pc \in {"returned", "raised"}
    /\ pc' = "idle"
    /\ call' = [op |-> "none", commands |-> <<>>, shell |-> TRUE, cwd |-> "None",
                timeout |-> NoTimeout, capture |-> TRUE]
    /\ procs' = <<>>
    /\ processes' = <<>>
    /\ idx' = 0
    /\ acc' = [out |-> <<>>, err |-> <<>>]
    /\ exc' = <<>>
    /\ result' = <<>>
    /\ raised' = <<>>

\* the caller takes the outcome of the call; nothing of it is retained
NextCall ==
    /\ Forget
    /\ history' = history

\* the caller takes the outcome of the call and keeps the outcome of its
\* first run call, and whether it has called pipe since, for later comparison
Remember ==
    /\ Forget
    /\ history' =
          IF history = <<>>
          THEN IF call.op = "run"
               THEN <<[call |-> call, result |-> result, raised |-> raised,
                       piped |-> FALSE]>>
               ELSE <<>>
          ELSE <<[history[1] EXCEPT !.piped = @ \/ call.op = "pipe"]>>

Stages == 1..MaxCmds

Next ==
    \/ Run
    \/ Capture
    \/ head
    \/ tail
    \/ grep
    \/ wc
    \/ uniq
    \/ sort
    \/ TextPipe
    \/ PipeEmpty
    \/ PipeSingle
    \/ PipeMulti
    \/ StartFirst
    \/ StartMiddle
    \/ StartLast
    \/ CommDrainOut
    \/ CommDrainErr
    \/ CommFinish
    \/ WaitStage
    \/ PipeReturn
    \/ CleanupTerminate
    \/ CleanupReturn
    \/ \E i \in Stages : ChildRead(i)
    \/ \E i \in Stages : ChildWriteErr(i)
    \/ \E i \in Stages : ChildWriteOut(i)
    \/ \E i \in Stages : ChildExit(i)
    \/ \E i \in Stages : ChildDie(i)
    \/ NextCall

Spec == Init /\ [][Next]_vars

\* the calls of a caller that compares the outcomes of its run calls and
\* builds no pipeline of more than two stages
HistNext ==
    \/ Run
    \/ Capture
    \/ PipeEmpty
    \/ PipeSingle
    \/ PipePair
    \/ StartFirst
    \/ StartLast
    \/ CommDrainOut
    \/ CommDrainErr
    \/ CommFinish
    \/ WaitStage
    \/ PipeReturn
    \/ CleanupTerminate
    \/ CleanupReturn
    \/ \E i \in Stages : ChildRead(i)
    \/ \E i \in Stages : ChildWriteErr(i)
    \/ \E i \in Stages : ChildWriteOut(i)
    \/ \E i \in Stages : ChildExit(i)
    \/ \E i \in Stages : ChildDie(i)
    \/ Remember

HistSpec == Init /\ [][HistNext]_vars

\* the scheduler runs every process that can take a step, and the
\* orchestrating thread proceeds whenever it is not blocked
Orchestrator ==
    \/ StartFirst \/ StartMiddle \/ StartLast
    \/ CommDrainOut \/ CommDrainErr \/ CommFinish
    \/ WaitStage \/ PipeReturn
    \/ CleanupTerminate \/ CleanupReturn

Child(i) ==
    ChildRead(i) \/ ChildWriteErr(i) \/ ChildWriteOut(i) \/ ChildExit(i) \/ ChildDie(i)

LiveSpec ==
    /\ Init
    /\ [][Next]_vars
    /\ WF_vars(Orchestrator)
    /\ \A i \in Stages : WF_vars(Child(i))

-----------------------------------------------------------------------------
(* Properties *)

MultiStage == call.op = "pipe" /\ Len(call.commands) >= 2

\* pipe has returned from its except clause
PipeFailed == MultiStage /\ pc = "returned" /\ exc /= <<>>

\* pipe has returned from _execute_pipeline
PipeCollected == MultiStage /\ pc = "returned" /\ exc = <<>>

\* C1: when a stage of a multi-stage pipe fails to spawn, every stage that
\* was spawned before it has been sent a termination signal (or has already
\* exited) by the time pipe has returned its failure result.
C1_SpawnFailureTerminatesSpawned ==
    (PipeFailed /\ Len(procs) < Len(call.commands))
        => \A i \in 1..Len(procs) : procs[i].sig = "TERM" \/ procs[i].state = "exited"

\* C2: an exception raised while spawning or collecting in a multi-stage
\* pipe is never raised to the caller; pipe returns one ProcessResult with
\* returncode -1, empty stdout, the error's text as stderr and the commands
\* joined with " | " as command.
C2_FailureResultShape ==
    (MultiStage /\ exc /= <<>>)
        => /\ raised = <<>>
           /\ pc \in {"cleanup", "returned"}
           /\ pc = "returned" =>
                 /\ Len(result) = 1
                 /\ result[1].returncode = -1
                 /\ result[1].stdout = <<>>
                 /\ result[1].stderr = exc
                 /\ result[1].command = JoinPipe(call.commands)

C2_Witness ==
    /\ PipeFailed
    /\ exc = <<"[Errno 2] No such file or directory: '", "n", "'">>
    /\ result[1].stderr = exc
    /\ result[1].command = <<"c", " ", "|", " ", "n">>

\* C3: the returncode of a collected pipeline of two or more stages is the
\* exit code of its terminal stage, whatever the earlier stages exited with.
C3_TerminalExitCode ==
    PipeCollected
        => result[1].returncode
             = Program(call.commands[Len(call.commands)], call.shell).exit

C3_Witness ==
    /\ PipeCollected
    /\ procs[1].rc /= 0
    /\ result[1].returncode = 0

\* C4: every multi-stage pipe whose commands all exit after finitely many
\* writes eventually returns.
C4_PipeEventuallyReturns == (pc = "create") ~> (pc = "returned")

\* C5: when a multi-stage pipe has failed, the parent holds no read end of
\* any stage's stdout or stderr pipe open once pipe has returned.
C5_NoDescriptorLeftOpen == PipeFailed => Unclosed = {}

\* C6: when pipe returns from the collection path, every stage of the
\* pipeline has exited and has been waited for.
C6_AllStagesReaped ==
    PipeCollected
        => /\ Len(procs) = Len(call.commands)
           /\ \A i \in 1..Len(procs) : procs[i].state = "exited" /\ procs[i].reaped

C6_Witness ==
    /\ PipeCollected
    /\ Len(procs) >= 3
    /\ \A i \in 1..Len(procs) : procs[i].reaped

\* C7: pipe with an empty command list raises the invalid-argument error,
\* spawns no process and returns no result.
C7_EmptyPipeRaises ==
    (call.op = "pipe" /\ call.commands = <<>>)
        => /\ pc = "raised"
           /\ raised = <<"At least one command is required">>
           /\ result = <<>>
           /\ procs = <<>>

C7_Witness ==
    /\ call.op = "pipe"
    /\ call.commands = <<>>
    /\ pc = "raised"
    /\ raised /= <<>>

\* C8: pipe of a single command c with a shell flag returns or raises
\* exactly what run of c with that shell flag (and run's other defaults)
\* returns or raises, after running the one process run runs and without
\* entering the pipeline path.
C8_SingleCommandIsRun ==
    (call.op = "pipe" /\ Len(call.commands) = 1)
        => LET o == RunOutcome(call.commands[1], call.shell, "None", NoTimeout, TRUE)
           IN  /\ pc = IF o.raised /= <<>> THEN "raised" ELSE "returned"
               /\ result = o.result
               /\ raised = o.raised
               /\ procs = o.procs
               /\ Len(procs) <= 1
               /\ processes = <<>>

C8_Witness ==
    /\ call.op = "pipe"
    /\ Len(call.commands) = 1
    /\ ~call.shell
    /\ pc = "returned"
    /\ result[1].command = <<"[", "'", "c", "'", "]">>
    /\ result[1].stdout = <<"c.out">>

\* run was given a timeout that its process, once spawned, outlives
RunTimedOut ==
    /\ call.op = "run"
    /\ call.shell \/ ShlexSplit(call.commands[1]).ok
    /\ PopenError(call.commands[1], call.shell, call.cwd) = <<>>
    /\ call.timeout /= NoTimeout
    /\ Program(call.commands[1], call.shell).dur >= call.timeout

C10_SpawnFailureResult ==
    (/\ call.op = "run"
     /\ call.shell \/ ShlexSplit(call.commands[1]).ok
     /\ PopenError(call.commands[1], call.shell, call.cwd) /= <<>>)
        => /\ pc = "returned"
           /\ raised = <<>>
           /\ Len(result) = 1
           /\ result[1].returncode = -1
           /\ result[1].stdout = <<>>
           /\ result[1].stderr = PopenError(call.commands[1], call.shell, call.cwd)

C10_Witness ==
    /\ call.op = "run"
    /\ ~call.shell
    /\ call.cwd = "None"
    /\ pc = "returned"
    /\ result[1].returncode = -1
    /\ result[1].stderr = <<"[Errno 2] No such file or directory: '", "n", "'">>

\* C11: run, and pipe with a non-empty command list, never raise: every
\* call returns a ProcessResult.
C11_NeverRaises ==
    (call.op = "run" \/ (call.op = "pipe" /\ call.commands /= <<>>))
        => /\ raised = <<>>
           /\ pc /= "raised"

\* run, or pipe delegating to run, has returned
SingleReturned ==
    /\ call.op \in {"run", "pipe"}
    /\ Len(call.commands) = 1
    /\ pc = "returned"

\* the one process of the call ran to its own exit
OwnExit(p) == p.state = "exited" /\ p.sig = "none"

\* a multi-stage pipe has returned and its terminal stage was spawned
TerminalSpawned == MultiStage /\ pc = "returned" /\ Len(procs) = Len(call.commands)

RunDecoded ==
    LET prog == Program(call.commands[1], call.shell)
    IN  ~call.capture \/ (Decodable(prog.out) /\ Decodable(prog.err))

Range(f) == {f[i] : i \in DOMAIN f}

\* C13: the result of a collected pipeline holds exactly what its terminal
\* stage wrote to stdout and to stderr, as text; at every moment the data in
\* a stage's stdout pipe is data that stage wrote to its stdout, never
\* stderr output.
C13_TerminalStreamsOnly ==
    /\ PipeCollected
          => LET prog == Program(call.commands[Len(call.commands)], call.shell)
             IN  /\ result[1].stdout = Decode(prog.out)
                 /\ result[1].stderr = Decode(prog.err)
    /\ MultiStage
          => \A i \in 1..Len(procs) :
                Range(procs[i].outBuf) \subseteq Range(Program(call.commands[i], call.shell).out)

C13_Witness ==
    /\ PipeCollected
    /\ procs[1].errBuf = <<"b'sh: not found'">>
    /\ result[1].stdout = <<"v.out">>
    /\ Len(result[1].stderr) >= 2
    /\ result[1].stderr[1] = "v.err"

\* C14: on the success path and on the failure path of a multi-stage pipe,
\* the command of the result is the commands, in order, joined with " | ".
C14_CommandIsJoinedCommands ==
    (MultiStage /\ pc = "returned") => result[1].command = JoinPipe(call.commands)

C14_Witness ==
    /\ PipeCollected
    /\ result[1].returncode = 0
    /\ result[1].command = <<"u", " ", "|", " ", "c">>

\* C15: capture returns exactly the stdout of the result run returns for
\* the same command and options, and raises exactly when run raises.
C15_CaptureIsRunStdout ==
    call.op = "capture"
        => LET o == RunOutcome(call.commands[1], call.shell, call.cwd,
                               call.timeout, call.capture)
           IN  /\ raised = o.raised
               /\ IF o.raised /= <<>>
                  THEN pc = "raised" /\ result = <<>>
                  ELSE pc = "returned" /\ result = <<o.result[1].stdout>>

C15_Witness ==
    /\ call.op = "capture"
    /\ pc = "returned"
    /\ call.timeout = NoTimeout
    /\ result = << <<"c.out">> >>

C17_HeadTakesContent ==
    (call.op = "head" /\ call.kw = "content")
        => /\ pc = "returned"
           /\ result = <<JoinNl(SubSeq(Lines(call.text), 1,
                                       Min(call.n, Len(Lines(call.text)))))>>

\* C18: tail(path, n) of a file returns its last min(n, number of lines)
\* lines, in file order, without terminators, joined by newlines.
C18_TailLastLines ==
    (call.op = "tail" /\ call.exists)
        => LET ls == Lines(call.text)
               k == Min(call.n, Len(ls))
           IN  /\ pc = "returned"
               /\ result = <<JoinNl(SubSeq(ls, Len(ls) - k + 1, Len(ls)))>>

\* C19: head(path, n) of a file returns its first min(n, number of lines)
\* lines, in file order, without terminators, joined by newlines.
C19_HeadFirstLines ==
    (call.op = "head" /\ call.kw = "filepath" /\ call.exists)
        => LET ls == Lines(call.text)
           IN  /\ pc = "returned"
               /\ result = <<JoinNl(SubSeq(ls, 1, Min(call.n, Len(ls))))>>

C19_Witness ==
    /\ call.op = "head"
    /\ call.kw = "filepath"
    /\ call.exists
    /\ call.text = <<"a", "\n", "\n", "b">>
    /\ call.n = 2
    /\ result = << <<"a", "\n">> >>

\* the number of the run of consecutive equal lines that lines[i] is in
RunIndex(lines, i) == 1 + Cardinality({j \in 1..(i - 1) : lines[j] /= lines[j + 1]})

RunLength(lines, r) == Cardinality({i \in 1..Len(lines) : RunIndex(lines, i) = r})

RECURSIVE SumCounts(_, _)
\* the sum of the counts printed in out[r], out[r + 1], ...
SumCounts(out, r) ==
    IF r > Len(out) THEN 0
    ELSE ParseCount(SubSeq(out[r], 1, CountWidth)) + SumCounts(out, r + 1)

\* C20: uniq returns one line per run of consecutive equal lines, in the order
\* of the runs, no two adjacent output lines equal; with count=True each
\* output line is the run length right-aligned in 7 columns, a space and the
\* line, and the printed run lengths add up to the number of input lines.
C20_UniqCollapsesRuns ==
    call.op = "uniq"
        => /\ pc = "returned"
           /\ IF call.lines = <<>> THEN result = << <<>> >>
              ELSE LET lines == call.lines
                       out == SplitNl(result[1])
                       body(r) == IF call.count
                                  THEN SubSeq(out[r], CountWidth + 2, Len(out[r]))
                                  ELSE out[r]
                   IN  /\ Len(out) = RunIndex(lines, Len(lines))
                       /\ \A i \in 1..Len(lines) : body(RunIndex(lines, i)) = lines[i]
                       /\ \A r \in 1..(Len(out) - 1) :
                              out[r] /= out[r + 1] /\ body(r) /= body(r + 1)
                       /\ call.count
                            => /\ \A r \in 1..Len(out) :
                                    /\ Len(out[r]) >= CountWidth + 1
                                    /\ out[r][CountWidth + 1] = " "
                                    /\ out[r][CountWidth] /= " "
                                    /\ ParseCount(SubSeq(out[r], 1, CountWidth))
                                           = RunLength(lines, r)
                               /\ SumCounts(out, 1) = Len(lines)

C20_Witness ==
    /\ call.op = "uniq"
    /\ call.count
    /\ call.lines = << <<"a">>, <<"a">>, <<"b">>, <<"a">> >>
    /\ Len(SplitNl(result[1])) = 3
    /\ SplitNl(result[1])[1] = <<" ", " ", " ", " ", " ", " ", "2", " ", "a">>
    /\ SplitNl(result[1])[3] = <<" ", " ", " ", " ", " ", " ", "1", " ", "a">>

\* C21: grep returns the lines of the file or content that the pattern
\* matches (with invert=True: does not match), in order, joined by newlines,
\* and the file form and the content form return the same for the same text.
C21_GrepSelectsLines ==
    (call.op = "grep" /\ call.form \in {"filepath", "content"} /\ call.exists
        /\ ~call.line_numbers)
        => LET other == IF call.form = "filepath" THEN "content" ELSE "filepath"
               keep(line) == Search(call.pattern, line, call.ignore_case) /= call.invert
           IN  /\ pc = "returned"
               /\ result = <<JoinNl(SelectSeq(Lines(call.text), keep))>>
               /\ result = <<GrepResult(call.pattern, other, call.text,
                                        call.ignore_case, FALSE, call.invert)>>

\* x occurs n times in the sequence s
Occurs(x, s) == Cardinality({i \in 1..Len(s) : s[i] = x})

\* out holds the lines of lines, each as often
Permutation(out, lines) ==
    /\ Len(out) = Len(lines)
    /\ \A i \in 1..Len(lines) : Occurs(lines[i], out) = Occurs(lines[i], lines)

\* the first whitespace-separated field of the line is a number
HasNumber(line) == IsNumber(FirstField(Strip(line)))

\* out is in the order of the numbers in the first fields (numeric) or in
\* string order, ascending or (reverse) descending
Ordered(out, reverse, numeric) ==
    LET lt(a, b) == IF numeric
                    THEN ParseCount(FirstField(Strip(a))) < ParseCount(FirstField(Strip(b)))
                    ELSE StrLess(a, b)
    IN  \A i \in 1..(Len(out) - 1) :
            IF reverse THEN ~lt(out[i], out[i + 1]) ELSE ~lt(out[i + 1], out[i])

\* the lines of the text sort returned for the lines it was handed
SortOut == IF call.lines = <<>> THEN result[1] ELSE SplitNl(result[1])

\* C22 as stated: sort returns a permutation of its lines, ordered by the
\* number in the first field when numeric=True and every line has one, and
\* in string order otherwise; in descending order with reverse=True.
C22_SortFallsBackWithoutNumber ==
    call.op = "sort"
        => /\ pc = "returned"
           /\ Permutation(SortOut, call.lines)
           /\ IF call.numeric /\ \A i \in 1..Len(call.lines) : HasNumber(call.lines[i])
              THEN Ordered(SortOut, call.reverse, TRUE)
              ELSE Ordered(SortOut, call.reverse, FALSE)

\* C22 amended: as above, with blank lines ordered as the number 0 instead of
\* making the sort fall back to string order.
C22_SortOrders ==
    call.op = "sort"
        => /\ pc = "returned"
           /\ Permutation(SortOut, call.lines)
           /\ IF call.numeric /\ \A i \in 1..Len(call.lines) :
                                 Strip(call.lines[i]) = <<>> \/ HasNumber(call.lines[i])
              THEN Ordered(SortOut, call.reverse, TRUE)
              ELSE Ordered(SortOut, call.reverse, FALSE)

C22_Witness ==
    /\ call.op = "sort"
    /\ call.numeric
    /\ call.reverse
    /\ call.lines = << <<"2">>, <<" ", "3", " ", "b">>, <<"1", "0">> >>
    /\ SortOut = << <<"1", "0">>, <<" ", "3", " ", "b">>, <<"2">> >>

\* C23: wc returns (lines, words, chars): the newline-terminated lines plus
\* one for a non-empty content that does not end with a newline, the maximal
\* runs of non-whitespace characters, and all characters.
C23_WcCounts ==
    (call.op = "wc" /\ call.exists)
        => LET t == call.text
               terminated == {i \in 1..Len(t) : t[i] = "\n"}
               starts == {i \in 1..Len(t) :
                             ~IsSpace(t[i]) /\ (i = 1 \/ IsSpace(t[i - 1]))}
           IN  /\ pc = "returned"
               /\ result[1][1] = Cardinality(terminated)
                     + (IF t /= <<>> /\ Len(t) \notin terminated THEN 1 ELSE 0)
               /\ result[1][2] = Cardinality(starts)
               /\ result[1][3] = Len(t)

C23_Witness ==
    /\ call.op = "wc"
    /\ call.exists
    /\ call.text = <<"a", "\n", " ", "a">>
    /\ result = << <<2, 2, 4>> >>

RECURSIVE After(_, _, _)
\* the value after the first k of the functions fs, begun with x: the k-th
\* function applied to the value after the first k - 1
After(fs, k, x) == IF k = 0 THEN x ELSE Apply(fs[k], After(fs, k - 1, x))

\* C24: the function TextUtils.pipe(f1, ..., fn) returns applies f1 first and
\* fn last, each to the result of the one before, and returns the last
\* result; with no functions it returns its input.
C24_PipeComposesInOrder ==
    call.op = "textpipe"
        => /\ pc = "returned"
           /\ result = <<After(call.functions, Len(call.functions), call.x)>>
           /\ call.functions = <<>> => result = <<call.x>>

C24_Witness ==
    /\ call.op = "textpipe"
    /\ call.functions = <<"inc", "dbl", "inc">>
    /\ call.x = 1
    /\ result = <<5>>

\* C25: once stage i+1 of a pipe has been spawned on the stdout pipe of
\* stage i, the parent holds no reference to that pipe end: the only reader
\* of a non-terminal stage's stdout is the next stage, as long as it runs.
C25_HandedOffStdoutClosed ==
    call.op = "pipe"
        => \A i \in 1..(Len(procs) - 1) :
               /\ ~procs[i].parentOut
               /\ HasReader(i) <=> procs[i + 1].state = "running"

C25_Witness ==
    /\ MultiStage
    /\ pc = "communicate"
    /\ Len(procs) = 3
    /\ ~procs[1].parentOut
    /\ ~procs[2].parentOut
    /\ procs[3].parentOut
    /\ procs[1].sig = "PIPE"

\* the state of a spawned stage: terminated by cleanup once terminate() has
\* signalled it, exited once it has ended without that, running before
StageState(p) ==
    IF p.sig = "TERM" THEN "Terminated-by-cleanup"
    ELSE IF p.state = "exited" THEN "Exited"
    ELSE "Running"

\* C26: when a multi-stage pipe returns, every stage it has spawned is Exited
\* or Terminated-by-cleanup.
C26_StagesEndTerminal ==
    (MultiStage /\ pc = "returned")
        => \A i \in 1..Len(procs) :
               StageState(procs[i]) \in {"Exited", "Terminated-by-cleanup"}

\* a multi-stage pipe is spawning or collecting, or has returned what it
\* collected
Collecting == MultiStage /\ exc = <<>> /\ pc \in {"create", "communicate", "wait", "returned"}

\* some exit status has been collected only if every stage is spawned and
\* the terminal stage's output is drained
NoWaitBeforeDrained ==
    (\E i \in 1..Len(procs) : procs[i].reaped)
        => /\ Len(procs) = Len(call.commands)
           /\ procs[Len(procs)].state = "exited"
           /\ procs[Len(procs)].outBuf = <<>>
           /\ procs[Len(procs)].errBuf = <<>>

\* C27 as stated: no exit status is collected before the terminal stage's
\* output is drained, and the statuses are collected left to right: a stage
\* is collected only after all stages before it.
C27_CollectedLeftToRight ==
    Collecting
        => /\ NoWaitBeforeDrained
           /\ \A i, j \in 1..Len(procs) : (i < j /\ procs[j].reaped) => procs[i].reaped

\* C27 amended: the terminal stage's exit status is collected first, as its
\* output is drained; the other stages' statuses are then collected left to
\* right, whichever stage has finished first.
C27_CollectedAfterDrain ==
    Collecting
        => /\ NoWaitBeforeDrained
           /\ \A i \in 1..Len(procs) : procs[i].reaped => procs[Len(procs)].reaped
           /\ \A i, j \in 1..(Len(procs) - 1) : (i < j /\ procs[j].reaped) => procs[i].reaped
           /\ pc = "wait" => \A i \in 1..(Len(procs) - 1) : procs[i].reaped <=> i < idx

C27_Witness ==
    /\ Collecting
    /\ pc = "wait"
    /\ Len(procs) = 3
    /\ idx = 2
    /\ procs[1].reaped
    /\ procs[2].state = "exited"
    /\ ~procs[2].reaped
    /\ procs[3].reaped

\* every command of the call can be spawned
AllSpawn ==
    \A i \in 1..Len(call.commands) : StartError(call.commands[i], call.shell) = <<>>

\* C28: for a list of n >= 2 commands that all spawn, the spawner starts
\* exactly n processes, stage i from the i-th command and after stage i-1,
\* with the stdout pipe of stage i-1 as its stdin; what a stage writes to
\* stdout and to stderr goes to two separate pipes.
C28_OneStagePerCommand ==
    (MultiStage /\ AllSpawn)
        => /\ Len(procs) <= Len(call.commands)
           /\ pc /= "create" => Len(procs) = Len(call.commands)
           /\ \A i \in 1..Len(procs) :
                 LET prog == Program(call.commands[i], call.shell)
                 IN  /\ procs[i].cmd = call.commands[i]
                     /\ procs[i].stdin = i - 1
                     /\ Range(procs[i].outBuf) \subseteq Range(prog.out)
                     /\ Range(procs[i].errBuf) \subseteq Range(prog.err)

C28_Witness ==
    /\ MultiStage
    /\ AllSpawn
    /\ pc = "communicate"
    /\ Len(procs) = 3
    /\ procs[3].stdin = 2
    /\ procs[2].stdin = 1
    /\ procs[1].errBuf /= <<>>
    /\ procs[2].outBuf /= <<>>

\* C29: a terminate() that fails during cleanup is swallowed: the stages
\* after it in the list are still terminated, and pipe returns the failure
\* result of the error that triggered the cleanup.
C29_CleanupIsBestEffort ==
    (MultiStage /\ exc /= <<>>)
        => /\ raised = <<>>
           /\ pc \in {"cleanup", "returned"}
           /\ exc /= ErrTerminate
           /\ \A k \in 1..Len(processes) :
                 (pc = "returned" \/ k < idx)
                    => \/ procs[processes[k]].killErr
                       \/ procs[processes[k]].sig = "TERM"
                       \/ procs[processes[k]].state = "exited"
           /\ pc = "returned"
                 => result = <<ProcessResult(<<>>, exc, -1, JoinPipe(call.commands))>>

C29_Witness ==
    /\ PipeFailed
    /\ Len(processes) = 3
    /\ procs[1].killErr
    /\ procs[1].state = "running"
    /\ procs[2].sig = "TERM"
    /\ result[1].stderr = ErrDecode

\* C30: with shell=False a command string that cannot be tokenized gives,
\* in run as in a pipe of any length, a ProcessResult with returncode -1 and
\* no raised exception.
C30_UntokenizableGivesResult ==
    (/\ call.op \in {"run", "pipe"}
     /\ ~call.shell
     /\ \E i \in 1..Len(call.commands) : ~ShlexSplit(call.commands[i]).ok)
        => /\ raised = <<>>
           /\ pc /= "raised"
           /\ pc = "returned" => result[1].returncode = -1

====
